---- MODULE Spec2Model ----
(***************************************************************************)
(* A model of setup.py: the bootstrap of a local PKI (a CA, one leaf       *)
(* certificate per service, the postgres aliases) and of the .env          *)
(* configuration document.  One action per statement of main and of the    *)
(* functions it calls; the program counter pc names the statement that is  *)
(* about to run.  The filesystem is part of the state.  What the source    *)
(* does not decide (whether openssl is installed, the process umask,       *)
(* the mode openssl genrsa creates its output with, whether a step fails)  *)
(* is chosen nondeterministically.                                         *)
(***************************************************************************)
EXTENDS Integers, Sequences, FiniteSets, TLC

VARIABLES
    pc,                 \* the statement about to run, "done"/"exited" after main
    exit_code,          \* -1 while running, 0 after a normal end, 1 after sys.exit(1) or an uncaught exception
    run,                \* number of the current invocation of main
    openssl_installed,  \* environment: subprocess.run(['openssl','version']) succeeds
    umask,              \* environment: the process umask
    genrsa_private,     \* environment: openssl genrsa creates its output owner-only (else with the umask)
    dirs,               \* directories on disk
    fs,                 \* path -> file (content, mode) or NoFile
    fs_at_start,        \* <<dirs, fs>> when the current main started
    credentials,        \* the value generate_credentials returned in this run
    service_name,       \* argument of the current generate_service_certificate call
    alt_names,          \* argument of the current generate_service_certificate call
    failed_at,          \* history: the last step of this run that failed ("" if none)
    env_writes,         \* history: number of times this run wrote the .env content
    ca_created,         \* history: number of CA certificates this run created
    issued              \* history: services whose leaf this run has signed

vars == <<pc, exit_code, run, openssl_installed, umask, genrsa_private, dirs, fs,
          fs_at_start, credentials, service_name, alt_names, failed_at,
          env_writes, ca_created, issued>>

----------------------------------------------------------------------------
(* Bounds *)

MaxRuns == 2
MaxSan == 2

----------------------------------------------------------------------------
(* Permission modes *)

OwnerOnly == 384
DefaultCreate == 438

Umasks == {18, 63}

RECURSIVE AndNot(_, _, _)
AndNot(m, u, n) ==
    IF n = 0 THEN 0
    ELSE (IF m % 2 = 1 /\ u % 2 = 0 THEN 1 ELSE 0) + 2 * AndNot(m \div 2, u \div 2, n - 1)

ApplyUmask(m) == AndNot(m, umask, 9)

GroupOtherBits(m) == m % 64

----------------------------------------------------------------------------
(* Paths *)

Services == {"backend", "frontend", "postgres"}

DirList == <<"certs/ca", "certs/backend", "certs/frontend", "certs/postgres", "docker">>

EnvPath == ".env"
CaKey == "certs/ca/ca.key"
CaCert == "certs/ca/ca.crt"
CaSerial == "certs/ca/ca.srl"
ReadmePath == "certs/README.md"
GitignorePath == ".gitignore"

ServiceDir(s) ==
    CASE s = "backend" -> "certs/backend"
      [] s = "frontend" -> "certs/frontend"
      [] s = "postgres" -> "certs/postgres"

KeyFile(s) ==
    CASE s = "backend" -> "certs/backend/backend.key"
      [] s = "frontend" -> "certs/frontend/frontend.key"
      [] s = "postgres" -> "certs/postgres/postgres.key"

CsrFile(s) ==
    CASE s = "backend" -> "certs/backend/backend.csr"
      [] s = "frontend" -> "certs/frontend/frontend.csr"
      [] s = "postgres" -> "certs/postgres/postgres.csr"

CertFile(s) ==
    CASE s = "backend" -> "certs/backend/backend.crt"
      [] s = "frontend" -> "certs/frontend/frontend.crt"
      [] s = "postgres" -> "certs/postgres/postgres.crt"

ExtFile(s) ==
    CASE s = "backend" -> "certs/backend/backend.ext"
      [] s = "frontend" -> "certs/frontend/frontend.ext"
      [] s = "postgres" -> "certs/postgres/postgres.ext"

ServerCrt == "certs/postgres/server.crt"
ServerKey == "certs/postgres/server.key"
PostgresCa == "certs/postgres/ca.crt"

Paths ==
    {EnvPath, CaKey, CaCert, CaSerial, ReadmePath, GitignorePath, ServerCrt, ServerKey, PostgresCa}
    \cup {KeyFile(s) : s \in Services} \cup {CsrFile(s) : s \in Services}
    \cup {CertFile(s) : s \in Services} \cup {ExtFile(s) : s \in Services}

PrivateKeyPaths == {CaKey, ServerKey} \cup {KeyFile(s) : s \in Services}

----------------------------------------------------------------------------
(* File contents.  A key is named by the run and the owner it was generated *)
(* for: every genrsa call yields a key different from every other.          *)

NoKey == <<0, "">>
NoContent == [kind |-> "none", id |-> NoKey, signer |-> NoKey, subject |-> "", san |-> <<>>, complete |-> FALSE]
NoFile == [content |-> NoContent, mode |-> 0]

Exists(f, p) == f[p] # NoFile

FreshKey(owner) == <<run, owner>>

KeyContent(k) == [NoContent EXCEPT !.kind = "key", !.id = k, !.complete = TRUE]
CertContent(pub, signer, subject, san) ==
    [kind |-> "cert", id |-> pub, signer |-> signer, subject |-> subject, san |-> san, complete |-> TRUE]
CsrContent(pub, subject) == [NoContent EXCEPT !.kind = "csr", !.id = pub, !.subject = subject, !.complete = TRUE]
ExtContent(san) == [NoContent EXCEPT !.kind = "ext", !.san = san, !.complete = TRUE]
EnvContent(creds, complete) == [NoContent EXCEPT !.kind = "env", !.id = creds, !.complete = complete]
EmptyContent == [NoContent EXCEPT !.kind = "empty", !.complete = TRUE]
TextContent(name) == [NoContent EXCEPT !.kind = "text", !.subject = name, !.complete = TRUE]

\* open(path, O_CREAT|O_TRUNC, create_mode) and a write: an existing file keeps its mode
WriteFile(f, p, content, create_mode) ==
    [f EXCEPT ![p] = [content |-> content, mode |-> IF Exists(f, p) THEN f[p].mode ELSE create_mode]]

Chmod(f, p, m) == [f EXCEPT ![p].mode = m]

Remove(f, p) == [f EXCEPT ![p] = NoFile]

\* cp src dst: the content of src; a new dst gets src's mode under the umask
Copy(f, src, dst) == WriteFile(f, dst, f[src].content, ApplyUmask(f[src].mode))

\* the mode openssl genrsa -out creates its output with
GenrsaMode == IF genrsa_private THEN OwnerOnly ELSE ApplyUmask(DefaultCreate)

\* a leaf verifies against a CA certificate when the CA's key signed it
Verifies(leaf, ca) == leaf.kind = "cert" /\ ca.kind = "cert" /\ leaf.signer = ca.id

----------------------------------------------------------------------------
(* Subject alternative names.  A string is a sequence of tokens. *)

RECURSIVE Join(_, _)
Join(list, sep) ==
    IF Len(list) = 0 THEN <<>>
    ELSE IF Len(list) = 1 THEN list[1]
    ELSE list[1] \o <<sep>> \o Join(Tail(list), sep)

DnsEntries(an) == [i \in 1..Len(an.dns) |-> <<"DNS:", an.dns[i]>>]
IpEntries(an) == [i \in 1..Len(an.ip) |-> <<"IP:", an.ip[i]>>]

SanEntriesIpFirst(an) == Join(IpEntries(an) \o DnsEntries(an), ",")
SanEntries(an) == Join(DnsEntries(an) \o IpEntries(an), ",")

BackendAltNames ==
    [dns |-> <<"backend", "objectstore-backend", "localhost", "api", "server">>,
     ip |-> <<"127.0.0.1", "0.0.0.0">>]
FrontendAltNames ==
    [dns |-> <<"frontend", "objectstore-frontend", "localhost", "www">>,
     ip |-> <<"127.0.0.1", "0.0.0.0">>]
PostgresAltNames ==
    [dns |-> <<"postgres", "objectstore-db", "localhost", "db", "database">>,
     ip |-> <<"127.0.0.1", "0.0.0.0">>]
NoAltNames == [dns |-> <<>>, ip |-> <<>>]

----------------------------------------------------------------------------
(* Control flow *)

env == <<openssl_installed, umask, genrsa_private>>
args == <<service_name, alt_names>>
hist == <<env_writes, ca_created, issued>>

\* the statement of main that follows statement p of main
MainNextSpecOrder(p) ==
    CASE p = "check_openssl" -> "mkdirs"
      [] p = "mkdirs" -> "ca_genrsa"
      [] p = "generate_ca_certificate" -> "call_backend"
      [] p = "generate_all_certificates" -> "gen_creds"
      [] p = "gen_creds" -> "env_open"
      [] p = "create_env_file" -> "readme"
      [] p = "readme" -> "gitignore"
      [] p = "gitignore" -> "summary"
MainNext(p) ==
    CASE p = "check_openssl" -> "mkdirs"
      [] p = "mkdirs" -> "gen_creds"
      [] p = "gen_creds" -> "env_open"
      [] p = "create_env_file" -> "ca_genrsa"
      [] p = "generate_ca_certificate" -> "call_backend"
      [] p = "generate_all_certificates" -> "readme"
      [] p = "readme" -> "gitignore"
      [] p = "gitignore" -> "summary"

Continue(next) == pc' = next /\ UNCHANGED <<exit_code, failed_at>>

\* sys.exit(1), or an exception nobody catches
Abort(at) == pc' = "exited" /\ exit_code' = 1 /\ failed_at' = at

\* run_command: the command's effect and the next statement, or sys.exit(1)
RunCommand(ok, at, next, newfs) ==
    IF ok THEN fs' = newfs /\ Continue(next)
    ELSE fs' = fs /\ Abort(at)

----------------------------------------------------------------------------
(* main, up to the certificates *)

CheckOpensslIgnored ==
    /\ pc = "check_openssl"
    /\ Continue(MainNext("check_openssl"))
    /\ UNCHANGED <<run, env, dirs, fs, fs_at_start, credentials, args, hist>>
CheckOpenssl ==
    /\ pc = "check_openssl"
    /\ IF openssl_installed THEN Continue(MainNext("check_openssl")) ELSE Abort("check_openssl")
    /\ UNCHANGED <<run, env, dirs, fs, fs_at_start, credentials, args, hist>>

\* mkdir of each directory in turn; n is the number created before one fails
CreateDirectoryStructure ==
    /\ pc = "mkdirs"
    /\ \E n \in 0..Len(DirList) :
        /\ dirs' = dirs \cup {DirList[i] : i \in 1..n}
        /\ IF n = Len(DirList) THEN Continue(MainNext("mkdirs")) ELSE Abort("mkdirs")
    /\ UNCHANGED <<run, env, fs, fs_at_start, credentials, args, hist>>

GenerateCredentials ==
    /\ pc = "gen_creds"
    /\ credentials' = FreshKey("credentials")
    /\ Continue(MainNext("gen_creds"))
    /\ UNCHANGED <<run, env, dirs, fs, fs_at_start, args, hist>>

\* open('.env', 'w'): creates or truncates
EnvOpen ==
    /\ pc = "env_open"
    /\ \E ok \in BOOLEAN :
        IF ok THEN fs' = WriteFile(fs, EnvPath, EmptyContent, ApplyUmask(DefaultCreate))
                   /\ Continue("env_write")
        ELSE fs' = fs /\ Abort("env_open")
    /\ UNCHANGED <<run, env, dirs, fs_at_start, credentials, args, hist>>

\* f.write(env_content) and the close that flushes it; a failure leaves nothing
\* or a part of the content
EnvWrite ==
    /\ pc = "env_write"
    /\ \E outcome \in {"written", "nothing", "part"} :
        CASE outcome = "written" ->
                /\ fs' = WriteFile(fs, EnvPath, EnvContent(credentials, TRUE), ApplyUmask(DefaultCreate))
                /\ env_writes' = env_writes + 1
                /\ Continue("env_chmod")
          [] outcome = "nothing" ->
                /\ UNCHANGED <<fs, env_writes>>
                /\ Abort("env_write")
          [] outcome = "part" ->
                /\ fs' = WriteFile(fs, EnvPath, EnvContent(credentials, FALSE), ApplyUmask(DefaultCreate))
                /\ UNCHANGED env_writes
                /\ Abort("env_write")
    /\ UNCHANGED <<run, env, dirs, fs_at_start, credentials, args, ca_created, issued>>

EnvChmod ==
    /\ pc = "env_chmod"
    /\ \E ok \in BOOLEAN :
        IF ok THEN fs' = Chmod(fs, EnvPath, OwnerOnly) /\ Continue(MainNext("create_env_file"))
        ELSE fs' = fs /\ Abort("env_chmod")
    /\ UNCHANGED <<run, env, dirs, fs_at_start, credentials, args, hist>>

----------------------------------------------------------------------------
(* generate_ca_certificate *)

CaGenrsa ==
    /\ pc = "ca_genrsa"
    /\ \E ok \in BOOLEAN :
        /\ ok => openssl_installed
        /\ RunCommand(ok, "ca_genrsa", "ca_req",
                      WriteFile(fs, CaKey, KeyContent(FreshKey("ca")), GenrsaMode))
    /\ UNCHANGED <<run, env, dirs, fs_at_start, credentials, args, hist>>

CaReq ==
    /\ pc = "ca_req"
    /\ \E ok \in BOOLEAN :
        /\ ok => openssl_installed /\ Exists(fs, CaKey)
        /\ RunCommand(ok, "ca_req", "ca_ret",
                      WriteFile(fs, CaCert,
                                CertContent(fs[CaKey].content.id, fs[CaKey].content.id,
                                            "ObjectStorage-CA", <<>>),
                                ApplyUmask(DefaultCreate)))
        /\ ca_created' = IF ok THEN ca_created + 1 ELSE ca_created
    /\ UNCHANGED <<run, env, dirs, fs_at_start, credentials, args, env_writes, issued>>

CaReturn ==
    /\ pc = "ca_ret"
    /\ Continue(MainNext("generate_ca_certificate"))
    /\ UNCHANGED <<run, env, dirs, fs, fs_at_start, credentials, args, hist>>

----------------------------------------------------------------------------
(* generate_all_certificates and generate_postgres_certificates: the calls *)

CallBackend ==
    /\ pc = "call_backend"
    /\ service_name' = "backend"
    /\ alt_names' = BackendAltNames
    /\ Continue("svc_genrsa")
    /\ UNCHANGED <<run, env, dirs, fs, fs_at_start, credentials, hist>>

CallFrontend ==
    /\ pc = "call_frontend"
    /\ service_name' = "frontend"
    /\ alt_names' = FrontendAltNames
    /\ Continue("svc_genrsa")
    /\ UNCHANGED <<run, env, dirs, fs, fs_at_start, credentials, hist>>

CallPostgres ==
    /\ pc = "call_postgres"
    /\ service_name' = "postgres"
    /\ alt_names' = PostgresAltNames
    /\ Continue("svc_genrsa")
    /\ UNCHANGED <<run, env, dirs, fs, fs_at_start, credentials, hist>>

----------------------------------------------------------------------------
(* generate_service_certificate(service_name, alt_names) *)

SvcGenrsa ==
    /\ pc = "svc_genrsa"
    /\ \E ok \in BOOLEAN :
        /\ ok => openssl_installed
        /\ RunCommand(ok, "svc_genrsa", "svc_req",
                      WriteFile(fs, KeyFile(service_name), KeyContent(FreshKey(service_name)),
                                GenrsaMode))
    /\ UNCHANGED <<run, env, dirs, fs_at_start, credentials, args, hist>>

SvcReq ==
    /\ pc = "svc_req"
    /\ \E ok \in BOOLEAN :
        /\ ok => openssl_installed /\ Exists(fs, KeyFile(service_name))
        /\ RunCommand(ok, "svc_req", "svc_ext",
                      WriteFile(fs, CsrFile(service_name),
                                CsrContent(fs[KeyFile(service_name)].content.id, service_name),
                                ApplyUmask(DefaultCreate)))
    /\ UNCHANGED <<run, env, dirs, fs_at_start, credentials, args, hist>>

\* with open(ext_file, 'w') as f: f.write(ext_content)
SvcWriteExt ==
    /\ pc = "svc_ext"
    /\ \E ok \in BOOLEAN :
        IF ok THEN fs' = WriteFile(fs, ExtFile(service_name), ExtContent(SanEntries(alt_names)),
                                   ApplyUmask(DefaultCreate))
                   /\ Continue("svc_sign")
        ELSE fs' = fs /\ Abort("svc_ext")
    /\ UNCHANGED <<run, env, dirs, fs_at_start, credentials, args, hist>>

\* the certificate openssl x509 -req writes for the request of service s
SelfSignedCert(f, s) ==
    CertContent(f[CsrFile(s)].content.id, f[CsrFile(s)].content.id,
                f[CsrFile(s)].content.subject, f[ExtFile(s)].content.san)
SignedCert(f, s) ==
    CertContent(f[CsrFile(s)].content.id, f[CaKey].content.id,
                f[CsrFile(s)].content.subject, f[ExtFile(s)].content.san)

\* openssl x509 -req refuses a CA key that does not match the CA certificate
SvcSign ==
    /\ pc = "svc_sign"
    /\ \E ok \in BOOLEAN :
        /\ ok => /\ openssl_installed
                 /\ Exists(fs, CsrFile(service_name)) /\ Exists(fs, ExtFile(service_name))
                 /\ Exists(fs, CaKey) /\ Exists(fs, CaCert)
                 /\ fs[CaKey].content.id = fs[CaCert].content.id
        /\ RunCommand(ok, "svc_sign", "svc_chmod",
                      WriteFile(WriteFile(fs, CertFile(service_name), SignedCert(fs, service_name),
                                          ApplyUmask(DefaultCreate)),
                                CaSerial, TextContent("serial"), ApplyUmask(DefaultCreate)))
        /\ issued' = IF ok THEN issued \cup {service_name} ELSE issued
    /\ UNCHANGED <<run, env, dirs, fs_at_start, credentials, args, env_writes, ca_created>>

SvcChmod ==
    /\ pc = "svc_chmod"
    /\ \E ok \in BOOLEAN :
        /\ ok => Exists(fs, KeyFile(service_name))
        /\ IF ok THEN fs' = Chmod(fs, KeyFile(service_name), OwnerOnly) /\ Continue("svc_rm_csr")
           ELSE fs' = fs /\ Abort("svc_chmod")
    /\ UNCHANGED <<run, env, dirs, fs_at_start, credentials, args, hist>>

SvcRmCsr ==
    /\ pc = "svc_rm_csr"
    /\ \E ok \in BOOLEAN :
        /\ ok => Exists(fs, CsrFile(service_name))
        /\ IF ok THEN fs' = Remove(fs, CsrFile(service_name)) /\ Continue("svc_rm_ext")
           ELSE fs' = fs /\ Abort("svc_rm_csr")
    /\ UNCHANGED <<run, env, dirs, fs_at_start, credentials, args, hist>>

SvcRmExt ==
    /\ pc = "svc_rm_ext"
    /\ \E ok \in BOOLEAN :
        /\ ok => Exists(fs, ExtFile(service_name))
        /\ IF ok THEN fs' = Remove(fs, ExtFile(service_name)) /\ Continue("svc_ret")
           ELSE fs' = fs /\ Abort("svc_rm_ext")
    /\ UNCHANGED <<run, env, dirs, fs_at_start, credentials, args, hist>>

\* the statement after the call that passed service s
ReturnAddress(s) ==
    CASE s = "backend" -> "call_frontend"
      [] s = "frontend" -> "call_postgres"
      [] s = "postgres" -> "pg_cp_crt"

SvcReturn ==
    /\ pc = "svc_ret"
    /\ Continue(ReturnAddress(service_name))
    /\ UNCHANGED <<run, env, dirs, fs, fs_at_start, credentials, args, hist>>

----------------------------------------------------------------------------
(* generate_postgres_certificates, after the leaf is issued *)

\* subprocess.run('cp src dst', shell=True): the exit status is not looked at
UncheckedCp(at, next, src, dst) ==
    \E ok \in BOOLEAN :
        /\ ok => Exists(fs, src)
        /\ pc' = next
        /\ UNCHANGED exit_code
        /\ IF ok THEN fs' = Copy(fs, src, dst) /\ UNCHANGED failed_at
           ELSE fs' = fs /\ failed_at' = at

PgCpCrt ==
    /\ pc = "pg_cp_crt"
    /\ UncheckedCp("pg_cp_crt", "pg_cp_key", CertFile("postgres"), ServerCrt)
    /\ UNCHANGED <<run, env, dirs, fs_at_start, credentials, args, hist>>

PgCpKey ==
    /\ pc = "pg_cp_key"
    /\ UncheckedCp("pg_cp_key", "pg_cp_ca", KeyFile("postgres"), ServerKey)
    /\ UNCHANGED <<run, env, dirs, fs_at_start, credentials, args, hist>>

PgCpCa ==
    /\ pc = "pg_cp_ca"
    /\ UncheckedCp("pg_cp_ca", "pg_chmod", CaCert, PostgresCa)
    /\ UNCHANGED <<run, env, dirs, fs_at_start, credentials, args, hist>>

PgChmod ==
    /\ pc = "pg_chmod"
    /\ \E ok \in BOOLEAN :
        /\ ok => Exists(fs, ServerKey)
        /\ IF ok THEN fs' = Chmod(fs, ServerKey, OwnerOnly) /\ Continue("pg_ret")
           ELSE fs' = fs /\ Abort("pg_chmod")
    /\ UNCHANGED <<run, env, dirs, fs_at_start, credentials, args, hist>>

PgReturn ==
    /\ pc = "pg_ret"
    /\ Continue(MainNext("generate_all_certificates"))
    /\ UNCHANGED <<run, env, dirs, fs, fs_at_start, credentials, args, hist>>

----------------------------------------------------------------------------
(* main, after the certificates *)

CreateCertificateReadme ==
    /\ pc = "readme"
    /\ \E ok \in BOOLEAN :
        IF ok THEN fs' = WriteFile(fs, ReadmePath, TextContent("readme"), ApplyUmask(DefaultCreate))
                   /\ Continue(MainNext("readme"))
        ELSE fs' = fs /\ Abort("readme")
    /\ UNCHANGED <<run, env, dirs, fs_at_start, credentials, args, hist>>

\* appends its entries unless the file already holds them
UpdateGitignore ==
    /\ pc = "gitignore"
    /\ \E ok \in BOOLEAN :
        IF ok THEN fs' = (IF Exists(fs, GitignorePath) THEN fs
                          ELSE WriteFile(fs, GitignorePath, TextContent("gitignore"),
                                         ApplyUmask(DefaultCreate)))
                   /\ Continue(MainNext("gitignore"))
        ELSE fs' = fs /\ Abort("gitignore")
    /\ UNCHANGED <<run, env, dirs, fs_at_start, credentials, args, hist>>

PrintSummary ==
    /\ pc = "summary"
    /\ pc' = "done"
    /\ exit_code' = 0
    /\ UNCHANGED <<run, env, dirs, fs, fs_at_start, credentials, args, failed_at, hist>>

\* python3 setup.py once more, in the directory the earlier run left
Rerun ==
    /\ pc \in {"done", "exited"}
    /\ run < MaxRuns
    /\ run' = run + 1
    /\ pc' = "check_openssl"
    /\ exit_code' = -1
    /\ openssl_installed' \in BOOLEAN
    /\ fs_at_start' = <<dirs, fs>>
    /\ credentials' = NoKey
    /\ service_name' = ""
    /\ alt_names' = NoAltNames
    /\ failed_at' = ""
    /\ env_writes' = 0
    /\ ca_created' = 0
    /\ issued' = {}
    /\ UNCHANGED <<umask, genrsa_private, dirs, fs>>

----------------------------------------------------------------------------
(* The bootstrap, from an empty directory *)

EmptyFs == [p \in Paths |-> NoFile]

Init ==
    /\ pc = "check_openssl"
    /\ exit_code = -1
    /\ run = 1
    /\ openssl_installed \in BOOLEAN
    /\ umask \in Umasks
    /\ genrsa_private \in BOOLEAN
    /\ dirs = {}
    /\ fs = EmptyFs
    /\ fs_at_start = <<{}, EmptyFs>>
    /\ credentials = NoKey
    /\ service_name = ""
    /\ alt_names = NoAltNames
    /\ failed_at = ""
    /\ env_writes = 0
    /\ ca_created = 0
    /\ issued = {}

Next ==
    \/ CheckOpenssl
    \/ CreateDirectoryStructure
    \/ GenerateCredentials
    \/ EnvOpen
    \/ EnvWrite
    \/ EnvChmod
    \/ CaGenrsa
    \/ CaReq
    \/ CaReturn
    \/ CallBackend
    \/ CallFrontend
    \/ CallPostgres
    \/ SvcGenrsa
    \/ SvcReq
    \/ SvcWriteExt
    \/ SvcSign
    \/ SvcChmod
    \/ SvcRmCsr
    \/ SvcRmExt
    \/ SvcReturn
    \/ PgCpCrt
    \/ PgCpKey
    \/ PgCpCa
    \/ PgChmod
    \/ PgReturn
    \/ CreateCertificateReadme
    \/ UpdateGitignore
    \/ PrintSummary
    \/ Rerun

Spec == Init /\ [][Next]_vars

----------------------------------------------------------------------------
(* generate_service_certificate on its own: any service, any SAN set, in   *)
(* the directory main has prepared (the .env and the CA are in place)      *)

DnsNames == {"backend", "localhost"}
IpAddrs == {"127.0.0.1", "0.0.0.0"}

RECURSIVE SeqsUpTo(_, _)
SeqsUpTo(S, n) ==
    IF n = 0 THEN {<<>>}
    ELSE SeqsUpTo(S, n - 1) \cup {Append(q, x) : q \in {r \in SeqsUpTo(S, n - 1) : Len(r) = n - 1}, x \in S}

PreparedFs ==
    [p \in Paths |->
        CASE p = EnvPath -> [content |-> EnvContent(<<1, "credentials">>, TRUE), mode |-> OwnerOnly]
          [] p = CaKey -> [content |-> KeyContent(<<1, "ca">>), mode |-> GenrsaMode]
          [] p = CaCert -> [content |-> CertContent(<<1, "ca">>, <<1, "ca">>, "ObjectStorage-CA", <<>>),
                            mode |-> ApplyUmask(DefaultCreate)]
          [] OTHER -> NoFile]

InitSan ==
    /\ pc = "svc_genrsa"
    /\ exit_code = -1
    /\ run = 1
    /\ openssl_installed = TRUE
    /\ umask \in Umasks
    /\ genrsa_private \in BOOLEAN
    /\ dirs = {DirList[i] : i \in 1..Len(DirList)}
    /\ fs = PreparedFs
    /\ fs_at_start = <<{}, EmptyFs>>
    /\ credentials = <<1, "credentials">>
    /\ service_name \in Services
    /\ alt_names \in [dns : SeqsUpTo(DnsNames, MaxSan), ip : SeqsUpTo(IpAddrs, MaxSan)]
    /\ failed_at = ""
    /\ env_writes = 1
    /\ ca_created = 1
    /\ issued = {}

NextSan ==
    \/ SvcGenrsa
    \/ SvcReq
    \/ SvcWriteExt
    \/ SvcSign
    \/ SvcChmod
    \/ SvcRmCsr
    \/ SvcRmExt
    \/ SvcReturn

SpecSan == InitSan /\ [][NextSan]_vars

----------------------------------------------------------------------------
(* Properties *)

DirSet == {DirList[i] : i \in 1..Len(DirList)}

\* the statements of generate_service_certificate that can abort the run
SvcSteps == {"svc_genrsa", "svc_req", "svc_ext", "svc_sign", "svc_chmod", "svc_rm_csr", "svc_rm_ext"}

\* generate_service_certificate has just returned to its caller
SvcReturned == service_name \in Services /\ pc = ReturnAddress(service_name)

\* generate_service_certificate has just aborted the run
SvcAborted == service_name \in Services /\ pc = "exited" /\ failed_at \in SvcSteps

\* C1: when generate_ca_certificate, generate_service_certificate or
\* generate_postgres_certificates returns, the private key it persisted
\* (ca.key, <service>.key, server.key) has mode 0600.
C1_KeyOwnerOnlyOnReturn ==
    /\ pc = MainNext("generate_ca_certificate") => fs[CaKey].mode = OwnerOnly
    /\ SvcReturned => fs[KeyFile(service_name)].mode = OwnerOnly
    /\ pc = MainNext("generate_all_certificates") => fs[ServerKey].mode = OwnerOnly

\* C2: in no state of a run does a private-key file exist with content while
\* its mode grants anything to group or other.
C2_KeyNeverGroupOrOtherAccessible ==
    \A p \in PrivateKeyPaths :
        Exists(fs, p) /\ fs[p].content.kind = "key" => GroupOtherBits(fs[p].mode) = 0

\* C3: once generate_service_certificate has ended, by returning or by
\* aborting the run, the service's .csr and .ext files are not on disk.
C3_NoScratchLeft ==
    SvcReturned \/ SvcAborted =>
        ~Exists(fs, CsrFile(service_name)) /\ ~Exists(fs, ExtFile(service_name))

\* C4: once a step of the run has failed, the run is aborted with exit status
\* 1 and no later step runs (so the summary is never reached).
C4_FailureAborts ==
    failed_at # "" => pc = "exited" /\ exit_code = 1

\* C5: when openssl is missing, the run aborts with the directories and files
\* exactly as they were when main started, at the check and after it.
C5_MissingOpensslTouchesNothing ==
    ~openssl_installed =>
        /\ <<dirs, fs>> = fs_at_start
        /\ pc \in {"check_openssl", "exited"}
        /\ pc = "exited" => exit_code = 1

C5_Witness ==
    ~openssl_installed /\ pc = "exited" /\ run > 1 /\ Exists(fs, CaKey) /\ Exists(fs, EnvPath)

\* C6: when generate_postgres_certificates returns, server.crt, server.key and
\* postgres/ca.crt hold the bytes of postgres.crt, postgres.key and ca/ca.crt.
C6_AliasesIdentical ==
    pc = MainNext("generate_all_certificates") =>
        /\ Exists(fs, ServerCrt) /\ fs[ServerCrt].content = fs[CertFile("postgres")].content
        /\ Exists(fs, ServerKey) /\ fs[ServerKey].content = fs[KeyFile("postgres")].content
        /\ Exists(fs, PostgresCa) /\ fs[PostgresCa].content = fs[CaCert].content

\* the entries of a comma-separated value
RECURSIVE SplitNonEmpty(_)
SplitNonEmpty(s) ==
    LET commas == {i \in 1..Len(s) : s[i] = ","} IN
    IF commas = {} THEN <<s>>
    ELSE LET i == CHOOSE j \in commas : \A k \in commas : j <= k IN
         <<SubSeq(s, 1, i - 1)>> \o SplitNonEmpty(SubSeq(s, i + 1, Len(s)))

Entries(s) == IF s = <<>> THEN <<>> ELSE SplitNonEmpty(s)

\* DNS:d1, ..., DNS:dm, IP:i1, ..., IP:in
ExpectedEntries(an) ==
    [i \in 1..(Len(an.dns) + Len(an.ip)) |->
        IF i <= Len(an.dns) THEN <<"DNS:", an.dns[i]>> ELSE <<"IP:", an.ip[i - Len(an.dns)]>>]

\* C7: the subjectAltName value written for a service (in its extensions file,
\* and from there in its certificate) has exactly the entries DNS:d1..DNS:dm,
\* IP:i1..IP:in of the SAN set passed for it, in that order.
C7_SanExact ==
    service_name \in Services =>
        /\ Exists(fs, ExtFile(service_name)) =>
              Entries(fs[ExtFile(service_name)].content.san) = ExpectedEntries(alt_names)
        /\ service_name \in issued =>
              Entries(fs[CertFile(service_name)].content.san) = ExpectedEntries(alt_names)

C7_Witness ==
    /\ service_name \in issued
    /\ Exists(fs, ExtFile(service_name))
    /\ Len(alt_names.dns) = 2 /\ alt_names.dns[1] # alt_names.dns[2]
    /\ Len(alt_names.ip) = 1

\* C8: a run creates at most one CA, creates it before it signs a leaf, and
\* every leaf the run has issued verifies against the ca.crt on disk.
C8_LeavesChainToTheOneCa ==
    /\ ca_created <= 1
    /\ issued # {} => ca_created = 1
    /\ \A s \in issued : Verifies(fs[CertFile(s)].content, fs[CaCert].content)

C8_Witness ==
    run > 1 /\ issued = Services /\ fs_at_start[2][CertFile("postgres")] # NoFile

\* C9: the .env file never holds a part of the document, and whenever it holds
\* generated credentials its mode is 0600.
C9_EnvNeverPartial ==
    fs[EnvPath].content.kind = "env" =>
        fs[EnvPath].content.complete /\ fs[EnvPath].mode = OwnerOnly

\* C10 as claimed: directories, then the CA, then the leaves, and only then
\* the configuration document, which is written exactly once per run.
C10_ConfigLast ==
    /\ env_writes <= 1
    /\ pc = "done" => env_writes = 1
    /\ env_writes > 0 => ca_created = 1 /\ issued = Services

\* C10 as amended: directories, then the configuration document, then the CA,
\* then the leaves in the order backend, frontend, postgres; the document is
\* written at most once per run, once in every run that completes, and before
\* this run creates the CA key.
C10_ConfigBeforeCa ==
    /\ env_writes <= 1
    /\ pc = "done" => env_writes = 1 /\ ca_created = 1 /\ issued = Services
    /\ env_writes > 0 => DirSet \subseteq dirs
    /\ fs[CaKey].content.id = <<run, "ca">> => env_writes = 1
    /\ ca_created > 0 => env_writes = 1
    /\ issued # {} => ca_created = 1
    /\ "frontend" \in issued => "backend" \in issued
    /\ "postgres" \in issued => "frontend" \in issued

C10_Witness ==
    pc = "done" /\ run > 1 /\ issued = Services /\ env_writes = 1

====
